---- MODULE Spec2Model ----
(***************************************************************************)
(* Wave1D (src/environments/finite_diff_wave.py): a leapfrog finite        *)
(* difference simulator of the forced 1-D wave equation.                   *)
(*                                                                         *)
(* Number model.  The program computes in IEEE binary floating point.      *)
(* Here every real is a binary fixed-point number: the integer v stands    *)
(* for v / 2^FracBits.  Sums and differences are exact; a product or a     *)
(* quotient is rounded to the nearest representable value, ties to even,   *)
(* which is the rounding mode of the floating point unit and, like it, is  *)
(* symmetric under negation.  Lattice and piston counts are plain          *)
(* integers.                                                               *)
(***************************************************************************)
EXTENDS Integers, Sequences, FiniteSets, TLC

\* Bounds of the model.
MaxSteps == 2          \* single_step calls explored between two resets
FracBits == 12         \* fractional bits of the fixed-point numbers

One == 2 ^ FracBits

Abs(a) == IF a < 0 THEN -a ELSE a

\* p / q rounded to the nearest integer, ties to even (q # 0).
RoundDiv(p, q) ==
    LET s == IF (p < 0) # (q < 0) THEN -1 ELSE 1
        a == Abs(p)
        b == Abs(q)
        f == a \div b
        r == a % b
        m == IF 2 * r > b \/ (2 * r = b /\ f % 2 = 1) THEN f + 1 ELSE f
    IN  s * m

\* Floating point product and quotient of two reals.
Mul(a, b) == RoundDiv(a * b, One)
Div(a, b) == RoundDiv(a * One, b)

NaN == "nan"

RECURSIVE ExpSeries(_, _, _, _)
\* acc plus the terms term * p^i / (k * ... * (k + i - 1)), i >= 0, until a
\* term rounds to zero (p >= 0): the power series of exp
ExpSeries(p, k, term, acc) ==
    IF term = 0 THEN acc
    ELSE ExpSeries(p, k + 1, RoundDiv(term * p, k * One), acc + term)

\* np.exp(q)
np_exp(q) ==
    IF q >= 0 THEN ExpSeries(q, 1, One, 0)
    ELSE Div(One, ExpSeries(-q, 1, One, 0))

RECURSIVE np_sum(_)
\* np.sum of a 1-d array
np_sum(a) == IF a = << >> THEN 0 ELSE a[1] + np_sum(Tail(a))

\* np.ones(m): the array is allocated but not zeroed
np_ones(m) == [j \in 1..m |-> One]

\* np.zeros(m), as a 1-indexed vector
np_zeros(m) == [j \in 1..m |-> 0]

\* np.linspace(0.0, stop, num), num >= 1, indexed from 0: the step is
\* stop / (num - 1), sample i is i * step, the last sample is stop itself.
np_linspace(stop, num) ==
    [i \in 0..(num - 1) |->
        IF num = 1 THEN 0
        ELSE IF i = num - 1 THEN stop
        ELSE i * RoundDiv(stop, num - 1)]

----------------------------------------------------------------------------
\* The configurations a caller may pass to the constructor.
TimeIntervalValues == {0, One \div 8}
WaveSpeedValues    == {0, One}
SystemLengthValues == {0, One}
LatticePointValues == {-2, -1, 0, 4}
ForcePointValues   == {-1, 0, 2}
ForceWidthValues   == {0, One \div 8}

Configs ==
    [time_interval : TimeIntervalValues, wave_speed : WaveSpeedValues,
     system_length : SystemLengthValues, num_lattice_points : LatticePointValues,
     num_force_points : ForcePointValues, force_width : ForceWidthValues]

\* The signed force a caller may put on one piston.
ForceValues == {-One, 0, One}

VARIABLES
    config,        \* the dict passed to the constructor
    self,          \* the attributes __init__ sets once: dt, c_speed, L, Nx,
                   \* num_force_points, force_locations, force_width, x_mesh, C, C2, dx
    status,        \* "new": not constructed yet, "ok": constructed, "failed": __init__ raised
    height,        \* self.height      (index 0..Nx)
    height_n,      \* self.height_n
    height_nm1,    \* self.height_nm1
    force_vals,    \* self.force_vals  (1-indexed vector)
    force_shared,  \* self.force_vals is the caller's own array object
    t,             \* self.t
    n,             \* self.n
    op,            \* the operation performed last
    raised,        \* the exception the last operation raised, or "none"
    ret,           \* the value the last operation returned
    obs_shared,    \* the array returned by get_observation shares memory with self.height
    lastAction,    \* history: the vector passed to the latest take_in_action since reset
    acted,         \* history: take_in_action was called since the last reset
    quiet,         \* history: every force value set since the last reset was zero
    calls,         \* history: single_step calls since the last reset
    completed,     \* history: single_step calls since the last reset that returned
    levels,        \* history: the field at the latest three completed time levels
    moved          \* history: the latest operation was a reset, called while the
                   \* field and the force vector were both non-zero

vars == <<config, self, status, height, height_n, height_nm1, force_vals, force_shared,
          t, n, op, raised, ret, obs_shared, lastAction, acted, quiet, calls,
          completed, levels, moved>>

field  == <<height, height_n, height_nm1>>
ghosts == <<lastAction, acted, quiet, calls, completed, levels>>

----------------------------------------------------------------------------
\* The attributes __init__ stores on the instance, for a configuration with
\* which its body does not raise.
Attributes(cfg) ==
    LET len  == cfg.system_length
        nx   == cfg.num_lattice_points
        nf   == cfg.num_force_points
        mesh == np_linspace(len, nx + 1)
        dx0  == Div(len, nx * One)                        \* float(L)/float(Nx)
        cour == Div(Mul(cfg.wave_speed, cfg.time_interval), dx0)
    IN  [dt |-> cfg.time_interval,
         c_speed |-> cfg.wave_speed,
         L |-> len,
         Nx |-> nx,
         num_force_points |-> nf,
         \* np.linspace(0.0, L, num_force_points + 2)[1 : num_force_points + 1]
         force_locations |-> IF nf < 1 THEN << >>
                             ELSE [j \in 1..nf |-> np_linspace(len, nf + 2)[j]],
         \* force_width, scaled by the system length
         force_width |-> Mul(cfg.force_width, len),
         x_mesh |-> mesh,
         C |-> cour,
         C2 |-> Mul(cour, cour),
         dx |-> mesh[1] - mesh[0]]

dt               == self.dt
c_speed          == self.c_speed
L                == self.L
Nx               == self.Nx
num_force_points == self.num_force_points
force_locations  == self.force_locations
force_width      == self.force_width
x_mesh           == self.x_mesh
C                == self.C
C2               == self.C2
dx               == self.dx

Velocity_0(x)     == 0
Initial_Height(x) == 0

\* range(1, self.Nx)
Interior(slf) == 1..(slf.Nx - 1)

\* The first exception the body of __init__ raises before it calls reset, or "none".
InitRaises(cfg) ==
    IF cfg.num_force_points + 2 < 0 THEN "ValueError"              \* np.linspace, negative num
    ELSE IF cfg.num_lattice_points = 0 THEN "ZeroDivisionError"    \* float(L)/float(Nx)
    ELSE IF cfg.num_lattice_points + 1 < 0 THEN "ValueError"       \* np.linspace, negative num
    ELSE IF cfg.system_length = 0 THEN "ZeroDivisionError"         \* c_speed*dt/dx with dx = 0.0
    ELSE IF cfg.num_lattice_points + 1 < 2 THEN "IndexError"       \* x_mesh[1]
    ELSE "none"

\* The exception reset raises, or "none": np.zeros rejects a negative length.
ResetRaises(cfg) == IF cfg.num_force_points < 0 THEN "ValueError" ELSE "none"

----------------------------------------------------------------------------
\* impulse_term.  slf is the record of the attributes of the instance.

\* exp(-0.5*((x - f)**2)/width) for the piston at f.  With width = 0 numpy
\* divides by zero without raising: the quotient is -inf where x differs
\* from f (weight 0.0) and nan where it does not.
gauss_weight(x, f, width) ==
    IF width # 0 THEN np_exp(Div(Mul(-(One \div 2), Mul(x - f, x - f)), width))
    ELSE IF x # f THEN 0
    ELSE NaN

\* np.exp(-0.5*((x - force_locations)**2)/force_width), one weight per piston
gauss(slf, x) ==
    [j \in 1..Len(slf.force_locations) |->
        gauss_weight(x, slf.force_locations[j], slf.force_width)]

\* numpy broadcasting of two 1-d shapes
Broadcastable(m, k) == m = k \/ m = 1 \/ k = 1

\* force_vals * weights raises ValueError when the shapes do not broadcast
impulse_raises(slf, fv) == ~Broadcastable(Len(fv), Len(slf.force_locations))

\* entry j of a vector of length m broadcast to a longer shape
Entry(a, m, j) == IF m = 1 THEN a[1] ELSE a[j]

\* the length of the broadcast of shapes (m,) and (k,)
BroadcastLen(m, k) == IF m = 1 THEN k ELSE m

\* np.sum(np.abs(force_vals) * weights): the sign of the force is dropped
impulse_term_abs(slf, fv, x) ==
    np_sum([j \in 1..BroadcastLen(Len(fv), Len(slf.force_locations)) |->
               Mul(Abs(Entry(fv, Len(fv), j)),
                   Entry(gauss(slf, x), Len(slf.force_locations), j))])

\* np.sum(force_vals + weights): the profile is added, not weighted
impulse_term_bias(slf, fv, x) ==
    np_sum([j \in 1..BroadcastLen(Len(fv), Len(slf.force_locations)) |->
               Entry(fv, Len(fv), j)
               + Entry(gauss(slf, x), Len(slf.force_locations), j)])

\* np.sum(force_vals * weights) for shapes that broadcast
impulse_term(slf, fv, x) ==
    np_sum([j \in 1..BroadcastLen(Len(fv), Len(slf.force_locations)) |->
               Mul(Entry(fv, Len(fv), j),
                   Entry(gauss(slf, x), Len(slf.force_locations), j))])

----------------------------------------------------------------------------
\* Free ends: the boundary entries copy their interior neighbours
ForceBoundaryFree(slf, h) == [h EXCEPT ![0] = h[1], ![slf.Nx] = h[slf.Nx - 1]]

\* Dirichlet boundary: self.height[0] = 0, self.height[self.Nx] = 0
ForceBoundary(slf, h) == [h EXCEPT ![0] = 0, ![slf.Nx] = 0]

\* height_n[i-1] - 2*height_n[i] + height_n[i+1]
Laplacian(hn, i) == hn[i - 1] - 2 * hn[i] + hn[i + 1]

\* The special first step of reset at interior index i.
FirstStep(slf, hn, fv, i) ==
    hn[i] + Mul(slf.dt, Velocity_0(slf.x_mesh[i]))
          + Mul(Mul(One \div 2, slf.C2), Laplacian(hn, i))
          + Mul(Mul(One \div 2, Mul(slf.dt, slf.dt)), impulse_term(slf, fv, slf.x_mesh[i]))

\* The leapfrog recursion of single_step at interior index i, without the
\* impulse (the two statements that precede the impulse evaluation).
LeapfrogFree(slf, hn, hnm1, i) ==
    -hnm1[i] + 2 * hn[i] + Mul(slf.C2, Laplacian(hn, i))

\* The leapfrog recursion of single_step at interior index i.
Leapfrog(slf, hn, hnm1, fv, i) ==
    LeapfrogFree(slf, hn, hnm1, i)
    + Mul(Mul(slf.dt, slf.dt), impulse_term(slf, fv, slf.x_mesh[i]))

\* The initial condition reset puts into height_n.
InitialField(slf) == [i \in 0..slf.Nx |-> Initial_Height(slf.x_mesh[i])]

\* The array reset leaves in height, given self.height as it was before.
FirstField(slf, hOld) ==
    ForceBoundary(slf, [i \in 0..slf.Nx |->
        IF i \in Interior(slf)
        THEN FirstStep(slf, InitialField(slf), np_zeros(slf.num_force_points), i)
        ELSE hOld[i]])

\* The arrays reset leaves behind, given self.height as it was before.
ResetFields(slf, hOld) ==
    [force_vals |-> np_zeros(slf.num_force_points),
     height     |-> FirstField(slf, hOld),
     height_n   |-> FirstField(slf, hOld),
     height_nm1 |-> InitialField(slf)]

\* The assignments of reset, r being the arrays it computes.
ResetEffect(r) ==
    /\ t' = 0
    /\ n' = 0
    /\ force_vals' = r.force_vals
    /\ force_shared' = FALSE
    /\ height' = r.height
    /\ height_n' = r.height_n
    /\ height_nm1' = r.height_nm1
    /\ lastAction' = << >>
    /\ acted' = FALSE
    /\ quiet' = TRUE
    /\ calls' = 0
    /\ completed' = 0
    /\ levels' = <<r.height>>

\* Wave1D(config)
Wave1D_init ==
    /\ status = "new"
    /\ op' = "__init__"
    /\ ret' = "None"
    /\ obs_shared' = FALSE
    /\ moved' = FALSE
    /\ UNCHANGED config
    /\ LET e == IF InitRaises(config) # "none" THEN InitRaises(config)
                ELSE ResetRaises(config)
       IN  IF e # "none"
           THEN /\ status' = "failed"
                /\ raised' = e
                /\ UNCHANGED <<self, field, force_vals, force_shared, t, n, ghosts>>
           ELSE /\ status' = "ok"
                /\ raised' = "none"
                /\ self' = Attributes(config)
                   \* reset runs on the attributes just set and on the
                   \* freshly allocated arrays np.zeros(Nx + 1)
                /\ ResetEffect(ResetFields(Attributes(config),
                       [i \in 0..config.num_lattice_points |->
                           np_zeros(config.num_lattice_points + 1)[i + 1]]))

reset ==
    /\ status = "ok"
    /\ op' = "reset"
    /\ raised' = "none"
    /\ ret' = "None"
    /\ obs_shared' = FALSE
    /\ moved' = ((\E j \in DOMAIN force_vals : force_vals[j] # 0)
                  /\ (\E i \in 0..Nx : height[i] # 0))
    /\ ResetEffect(ResetFields(self, height))
    /\ UNCHANGED <<config, self, status>>

\* The array single_step leaves in height when it returns.
NewField(slf, h, hn, hnm1, fv) ==
    ForceBoundary(slf, [i \in 0..slf.Nx |->
        IF i \in Interior(slf) THEN Leapfrog(slf, hn, hnm1, fv, i) ELSE h[i]])

\* The arrays single_step leaves behind, and the exception it raises.
StepFields(slf, h, hn, hnm1, fv) ==
    IF Interior(slf) # {} /\ impulse_raises(slf, fv)
    THEN \* the impulse evaluation at the first interior index raises, after
         \* the first two statements of the loop body have run
         [raised |-> "ValueError",
          height |-> [h EXCEPT ![1] = LeapfrogFree(slf, hn, hnm1, 1)],
          height_n |-> hn, height_nm1 |-> hnm1]
    ELSE [raised |-> "none",
          height |-> NewField(slf, h, hn, hnm1, fv),
          height_n |-> NewField(slf, h, hn, hnm1, fv),
          height_nm1 |-> hn]

single_step ==
    /\ status = "ok"
    /\ n < MaxSteps
    /\ op' = "single_step"
    /\ ret' = "None"
    /\ obs_shared' = FALSE
    /\ moved' = FALSE
    /\ t' = t + dt
    /\ n' = n + 1
    /\ calls' = calls + 1
    /\ LET r == StepFields(self, height, height_n, height_nm1, force_vals)
       IN  /\ raised' = r.raised
           /\ height' = r.height
           /\ height_n' = r.height_n
           /\ height_nm1' = r.height_nm1
           /\ completed' = IF r.raised = "none" THEN completed + 1 ELSE completed
           /\ levels' = IF r.raised # "none" THEN levels
                        ELSE IF Len(levels) < 3 THEN <<r.height>> \o levels
                        ELSE <<r.height, levels[1], levels[2]>>
    /\ UNCHANGED <<config, self, status, force_vals, force_shared, lastAction, acted, quiet>>

\* np.asarray(action): the caller's array itself, not a copy
np_asarray(a) == [data |-> a, shares |-> TRUE]

\* np.copy(action): a new array with the contents of action
np_copy(a) == [data |-> a, shares |-> FALSE]

\* The vectors a caller passes to take_in_action: of the right length, the
\* same force on every piston or a force on the first piston only; of a
\* wrong length (one shorter, one longer), the same force in every entry.
ActionVectors ==
    {[j \in 1..m |-> v] :
        m \in {num_force_points - 1, num_force_points, num_force_points + 1} \cap Nat,
        v \in ForceValues}
    \cup {[j \in 1..num_force_points |-> IF j = 1 THEN v ELSE 0] : v \in ForceValues}

\* take_in_action that also adds the new impulse to the current field at once
take_in_action_eager(action) ==
    /\ status = "ok"
    /\ op' = "take_in_action"
    /\ moved' = FALSE
    /\ raised' = "none"
    /\ ret' = "None"
    /\ obs_shared' = FALSE
    /\ force_vals' = np_copy(action).data
    /\ force_shared' = np_copy(action).shares
    /\ lastAction' = action
    /\ acted' = TRUE
    /\ quiet' = (quiet /\ \A j \in DOMAIN action : action[j] = 0)
    /\ height' = IF impulse_raises(self, action) THEN height
                 ELSE [i \in 0..Nx |->
                          IF i \in Interior(self)
                          THEN height[i] + Mul(Mul(dt, dt), impulse_term(self, action, x_mesh[i]))
                          ELSE height[i]]
    /\ UNCHANGED <<config, self, status, height_n, height_nm1, t, n, calls, completed, levels>>

take_in_action(action) ==
    /\ status = "ok"
    /\ op' = "take_in_action"
    /\ moved' = FALSE
    /\ raised' = "none"
    /\ ret' = "None"
    /\ obs_shared' = FALSE
    /\ force_vals' = np_copy(action).data
    /\ force_shared' = np_copy(action).shares
    /\ lastAction' = action
    /\ acted' = TRUE
    /\ quiet' = (quiet /\ \A j \in DOMAIN action : action[j] = 0)
    /\ UNCHANGED <<config, self, status, field, t, n, calls, completed, levels>>

\* The caller stores the value 2 into entry j of the array it passed to the
\* latest take_in_action.
caller_write(j) ==
    /\ status = "ok"
    /\ acted
    /\ j \in DOMAIN lastAction
    /\ op' = "caller_write"
    /\ moved' = FALSE
    /\ raised' = "none"
    /\ ret' = "None"
    /\ obs_shared' = FALSE
    /\ force_vals' = IF force_shared THEN [force_vals EXCEPT ![j] = 2 * One]
                     ELSE force_vals
    /\ UNCHANGED <<config, self, status, field, force_shared, t, n, ghosts>>

get_impulse_profile ==
    /\ status = "ok"
    /\ op' = "get_impulse_profile"
    /\ moved' = FALSE
    /\ obs_shared' = FALSE
    /\ IF impulse_raises(self, force_vals)
       THEN raised' = "ValueError" /\ ret' = "None"
       ELSE /\ raised' = "none"
            /\ ret' = [i \in 0..Nx |-> impulse_term(self, force_vals, x_mesh[i])]
    /\ UNCHANGED <<config, self, status, field, force_vals, force_shared, t, n, ghosts>>

\* observation[0,:,0], observation[0,:,1], observation[0,:,2]: a new array
\* filled from the three solution arrays
observation == [ch \in 0..2 |-> IF ch = 0 THEN height
                               ELSE IF ch = 1 THEN height_n ELSE height_nm1]

get_observation ==
    /\ status = "ok"
    /\ op' = "get_observation"
    /\ moved' = FALSE
    /\ raised' = "none"
    /\ ret' = observation
    /\ obs_shared' = FALSE
    /\ UNCHANGED <<config, self, status, field, force_vals, force_shared, t, n, ghosts>>

\* The caller stores the value 1 into observation[0, 1, 0] of the array it
\* has just been handed.
caller_write_observation ==
    /\ status = "ok"
    /\ op = "get_observation"
    /\ op' = "caller_write_observation"
    /\ moved' = FALSE
    /\ raised' = "none"
    /\ ret' = [ret EXCEPT ![0][1] = One]
    /\ height' = IF obs_shared THEN [height EXCEPT ![1] = One] ELSE height
    /\ UNCHANGED <<config, self, status, height_n, height_nm1, force_vals, force_shared,
                   obs_shared, t, n, ghosts>>

\* np.gradient(f, x_mesh) on the equally spaced mesh: central differences
\* inside, one-sided differences at the two ends
np_gradient(f) ==
    [i \in 0..Nx |->
        IF i = 0 THEN Div(f[1] - f[0], x_mesh[1] - x_mesh[0])
        ELSE IF i = Nx THEN Div(f[Nx] - f[Nx - 1], x_mesh[Nx] - x_mesh[Nx - 1])
        ELSE Div(f[i + 1] - f[i - 1], 2 * (x_mesh[1] - x_mesh[0]))]

RECURSIVE simps_sum(_, _)
\* Simpson's rule over the interval pairs [x_k, x_k+2], k = i, i+2, ...
simps_sum(y, i) ==
    IF i + 2 > Nx THEN 0
    ELSE LET h0 == x_mesh[i + 1] - x_mesh[i]
             h1 == x_mesh[i + 2] - x_mesh[i + 1]
             hsum == h0 + h1
             hprod == Mul(h0, h1)
             h0divh1 == Div(h0, h1)
             tmp == Mul(Div(hsum, 6 * One),
                        Mul(y[i], 2 * One - Div(One, h0divh1))
                        + Div(Mul(Mul(y[i + 1], hsum), hsum), hprod)
                        + Mul(y[i + 2], 2 * One - h0divh1))
         IN  tmp + simps_sum(y, i + 2)

\* scipy.integrate.simps(y, x_mesh) for an odd number of samples
simps(y) == simps_sum(y, 0)

\* dudt**2 + (C**2)*(dudx**2) + height**2
energy_density ==
    LET dudt == [i \in 0..Nx |-> Div(height[i] - height_nm1[i], dt)]
        dudx == np_gradient(height)
    IN  [i \in 0..Nx |-> Mul(dudt[i], dudt[i])
                         + Mul(Mul(C, C), Mul(dudx[i], dudx[i]))
                         + Mul(height[i], height[i])]

energy ==
    /\ status = "ok"
    /\ op' = "energy"
    /\ moved' = FALSE
    /\ raised' = "none"
    /\ obs_shared' = FALSE
       \* with dt = 0 the boundary entries of dudt are 0.0/0 = nan, and the
       \* quadrature of a density holding a nan is nan
    /\ ret' = IF dt = 0 THEN NaN ELSE Mul(One \div 2, simps(energy_density))
    /\ UNCHANGED <<config, self, status, field, force_vals, force_shared, t, n, ghosts>>

----------------------------------------------------------------------------
Init ==
    /\ config \in Configs
    /\ self = << >>
    /\ status = "new"
    /\ height = << >> /\ height_n = << >> /\ height_nm1 = << >>
    /\ force_vals = << >> /\ force_shared = FALSE
    /\ t = 0 /\ n = 0
    /\ op = "none" /\ raised = "none" /\ ret = "None"
    /\ obs_shared = FALSE
    /\ lastAction = << >> /\ acted = FALSE /\ quiet = TRUE
    /\ calls = 0 /\ completed = 0 /\ levels = << >>
    /\ moved = FALSE

Next ==
    \/ Wave1D_init
    \/ reset
    \/ single_step
    \/ status = "ok" /\ \E a \in ActionVectors : take_in_action(a)
    \/ \E j \in DOMAIN lastAction : caller_write(j)
    \/ get_impulse_profile
    \/ get_observation
    \/ caller_write_observation
    \/ energy

Spec == Init /\ [][Next]_vars
----------------------------------------------------------------------------
\* Properties

Constructed == status = "ok"

ZeroField == [i \in 0..Nx |-> 0]

NonZero(a) == \E i \in DOMAIN a : a[i] # 0

Neg(a) == [i \in DOMAIN a |-> -a[i]]

\* Some parameter of the configuration is zero or negative.
NonPositive(cfg) ==
    \/ cfg.time_interval <= 0
    \/ cfg.wave_speed <= 0
    \/ cfg.system_length <= 0
    \/ cfg.num_lattice_points <= 0
    \/ cfg.num_force_points <= 0
    \/ cfg.force_width <= 0

\* All six parameters of the configuration are positive.
ValidConfig == ~NonPositive(config)

\* C1: in every state of a constructed instance the entries at index 0 and
\* index Nx of height, height_n and height_nm1 are exactly zero.
C1_BoundaryZero ==
    Constructed =>
        /\ height[0] = 0 /\ height[Nx] = 0
        /\ height_n[0] = 0 /\ height_n[Nx] = 0
        /\ height_nm1[0] = 0 /\ height_nm1[Nx] = 0

\* A forced step has completed and moved the interior of the field.
C1_Witness ==
    /\ Constructed
    /\ op = "single_step"
    /\ raised = "none"
    /\ calls = MaxSteps
    /\ NonZero(lastAction)
    /\ \E i \in Interior(self) : height[i] # 0 /\ height_nm1[i] # 0

\* C2: for a valid configuration, right after reset the three solution
\* arrays are zero at every index, force_vals is the zero vector of length
\* num_force_points, t = 0 and n = 0, whatever state reset was called in;
\* so a second reset changes nothing.
C2_ResetRest ==
    (Constructed /\ ValidConfig /\ op = "reset") =>
        /\ height = ZeroField /\ height_n = ZeroField /\ height_nm1 = ZeroField
        /\ force_vals = [j \in 1..num_force_points |-> 0]
        /\ t = 0
        /\ n = 0

\* reset has been called on a moving field under a non-zero force.
C2_Witness == Constructed /\ ValidConfig /\ op = "reset" /\ moved

\* C3 (as claimed): for a valid configuration, take_in_action with a vector
\* whose length is not num_force_points raises at the call and does not
\* store the vector, so force_vals always has num_force_points entries.
C3_WrongLengthRejected ==
    (Constructed /\ ValidConfig) =>
        /\ Len(force_vals) = num_force_points
        /\ (op = "take_in_action" /\ Len(lastAction) # num_force_points)
               => raised # "none"

\* C4 (as claimed): construction with a zero or negative parameter fails
\* and produces no instance.
C4_ConstructionValidates ==
    (status # "new" /\ NonPositive(config)) => status = "failed"

\* The arrays of a second instance of the same configuration that is reset,
\* handed the vector fv and stepped once.
TwinAfterOneStep(fv) ==
    LET r0 == ResetFields(self, ZeroField)
    IN  StepFields(self, r0.height, r0.height_n, r0.height_nm1, fv)

\* C5: for a valid configuration, the first single_step after reset under
\* the force vector a leaves arrays that are, entry by entry, the exact
\* negatives of the arrays a second instance is left with after reset, the
\* vector -a and one step.
C5_SignSymmetry ==
    [][(Constructed /\ ValidConfig /\ calls = 0 /\ op' = "single_step") =>
          LET twin == TwinAfterOneStep(Neg(force_vals))
          IN  /\ height' = Neg(twin.height)
              /\ height_n' = Neg(twin.height_n)
              /\ height_nm1' = Neg(twin.height_nm1)]_vars

\* The first step after reset has run under a non-zero force.
C5_Witness ==
    /\ Constructed
    /\ ValidConfig
    /\ op = "single_step"
    /\ calls = 1
    /\ raised = "none"
    /\ NonZero(force_vals)
    /\ \E i \in Interior(self) : height[i] # 0

\* C6: force_vals is the vector passed to the latest take_in_action since
\* the last reset, or the zero vector when there was none; steps, queries
\* and later writes of the caller to its own array do not change it.
C6_ForcePersists ==
    Constructed =>
        force_vals = IF acted THEN lastAction ELSE [j \in 1..num_force_points |-> 0]

\* The caller has overwritten its array after a non-zero action was taken in
\* and a step was made.
C6_Witness ==
    /\ Constructed
    /\ op = "caller_write"
    /\ calls >= 1
    /\ NonZero(lastAction)

\* C7 (as claimed): for a valid configuration and a force vector of the
\* right length, after reset and k >= 2 completed steps get_observation
\* returns in channel 0 the field at the current time level, in channel 1
\* the field one step earlier and in channel 2 the field two steps earlier.
C7_ThreeTimeLevels ==
    (Constructed /\ ValidConfig /\ op = "get_observation"
        /\ Len(force_vals) = num_force_points
        /\ completed >= 2 /\ completed = calls) =>
        /\ ret[0] = levels[1]
        /\ ret[1] = levels[2]
        /\ ret[2] = levels[3]

\* C8: from reset on, while every force value set is zero and the Courant
\* number is below 1, the field stays at rest and energy() returns 0.
C8_ZeroForcingAtRest ==
    (Constructed /\ ValidConfig /\ C < One /\ quiet) =>
        /\ height = ZeroField /\ height_n = ZeroField /\ height_nm1 = ZeroField
        /\ (op = "energy" => ret = 0)

\* energy() has been called after MaxSteps unforced steps.
C8_Witness ==
    /\ Constructed /\ ValidConfig /\ C < One /\ quiet
    /\ op = "energy"
    /\ calls = MaxSteps
    /\ acted

\* The force on piston j as the claim reads it: entry j of force_vals, no
\* force where the vector has no such entry.
SiteForce(j) == IF j \in DOMAIN force_vals THEN force_vals[j] ELSE 0

\* sum over the pistons j of force_vals[j] * exp(-0.5*(x - site[j])^2 / width)
SiteImpulse(x) ==
    np_sum([j \in 1..Len(force_locations) |-> Mul(SiteForce(j), gauss(self, x)[j])])

\* C9 (as claimed): for a valid configuration, every single_step call
\* increases n by 1 and t by dt, keeps n equal to the number of calls since
\* reset and t = n*dt, computes every interior entry of height by the
\* leapfrog formula from the arrays and force_vals as they were before the
\* call, and shifts the time levels.
C9_LeapfrogStep ==
    [][(Constructed /\ ValidConfig /\ op' = "single_step") =>
          /\ n' = n + 1
          /\ t' = t + dt
          /\ n' = calls'
          /\ t' = n' * dt
          /\ height_nm1' = height_n
          /\ height_n' = height'
          /\ \A i \in Interior(self) :
                 height'[i] = -height_nm1[i] + 2 * height_n[i]
                              + Mul(C2, height_n[i - 1] - 2 * height_n[i] + height_n[i + 1])
                              + Mul(Mul(dt, dt), SiteImpulse(x_mesh[i]))]_vars

\* C10: take_in_action leaves the solution arrays, t and n as they were;
\* get_observation, get_impulse_profile and energy leave every attribute as
\* it was; the array get_observation returns shares no memory with the
\* solution arrays, so a write of the caller into it leaves them alone.
C10_Frame ==
    [][/\ (op' = "take_in_action") => UNCHANGED <<field, t, n>>
       /\ (op' \in {"get_observation", "get_impulse_profile", "energy"})
              => UNCHANGED <<config, self, status, field, force_vals, force_shared, t, n>>
       /\ (op' = "get_observation") => ~obs_shared'
       /\ (op' = "caller_write_observation") => UNCHANGED field]_vars

\* A non-zero action has been taken in on a field that is already moving.
C10_Witness ==
    /\ Constructed
    /\ op = "take_in_action"
    /\ calls >= 1
    /\ NonZero(lastAction)
    /\ NonZero(height)
====
